---- MODULE Spec2Model ----
(***************************************************************************)
(* A model of the benchmark harness of app/app.go: Run and the five        *)
(* scenarios benchSimple, benchComplex, benchMany, benchLarge and          *)
(* benchConcurrent, driven against a storage backend that is the           *)
(* environment of the harness.                                             *)
(***************************************************************************)
EXTENDS Integers, Sequences, FiniteSets, TLC

(***************************************************************************)
(* Bounds.  The program's data volumes are scaled down; each definition    *)
(* names the program constant it stands for.                               *)
(***************************************************************************)
\* nusers of benchSimple (1_000_000 in the program)
SimpleNusers == 2
\* nusers, narticlesPerUser, ncommentsPerArticle of benchComplex (200, 100, 20)
ComplexNusers == 2
ComplexNarticles == 2
ComplexNcomments == 2
\* the first nusers argument of benchMany in Run, as in the program
ManyN1 == 10
\* the other two nusers arguments of benchMany in Run (100, 1_000)
ManyN2 == 2
ManyN3 == 3
\* the number of queries of benchMany (1000)
ManyQueries == 3
\* nusers of benchLarge (10_000) and its three nsize arguments (50_000, ...)
LargeNusers == 2
LargeSize1 == 1
LargeSize2 == 2
LargeSize3 == 3
\* nusers of benchConcurrent (1_000_000)
ConcNusers == 2
\* the first ngoroutines argument of benchConcurrent in Run, as in the program
NGoroutines1 == 2
\* the other two ngoroutines arguments of benchConcurrent in Run (4, 8)
NGoroutines2 == 2
NGoroutines3 == 2
\* how many times the backend may misbehave in one run
MaxFaults == 1

(***************************************************************************)
(* Text.  A string is a sequence of one-character strings, so that         *)
(* formatting and slicing are computed and not assumed.                    *)
(***************************************************************************)
DigitChars == <<"0", "1", "2", "3", "4", "5", "6", "7", "8", "9">>

RECURSIVE Digits(_)
\* %d of a non-negative integer
Digits(n) == IF n < 10 THEN <<DigitChars[n + 1]>>
             ELSE Digits(n \div 10) \o <<DigitChars[(n % 10) + 1]>>

RECURSIVE Repeat(_, _)
\* strings.Repeat(s, n)
Repeat(s, n) == IF n <= 0 THEN <<>> ELSE s \o Repeat(s, n - 1)

\* %08d: zero-padded to a minimum width of 8
Pad8(n) == Repeat(<<"0">>, 8 - Len(Digits(n))) \o Digits(n)

AtExampleCom == <<"@", "e", "x", "a", "m", "p", "l", "e", ".", "c", "o", "m">>
StrUser == <<"u", "s", "e", "r">>
StrUser0 == <<"u", "s", "e", "r", "0">>
StrA == <<"a">>

\* fmt.Sprintf("user%08d@example.com", n)
SprintfUser08(n) == StrUser \o Pad8(n) \o AtExampleCom
\* fmt.Sprintf("user%d@example.com", n)
SprintfUser(n) == StrUser \o Digits(n) \o AtExampleCom

\* s[0:k] == p; slicing past the end of s panics, which ends the process as well
HasPrefix(s, k, p) == Len(s) >= k /\ SubSeq(s, 1, k) = p

(***************************************************************************)
(* Time.  A timestamp is an offset from base = 2023-10-01 10:00:00, kept   *)
(* as whole minutes plus milliseconds within the minute.                   *)
(***************************************************************************)
Base == [min |-> 0, ms |-> 0]

\* base.Add(d) for a duration of m minutes, s seconds and k milliseconds
TimeAdd(t, m, s, k) ==
    LET total == t.ms + (s * 1000) + k
    IN  [min |-> t.min + m + (total \div 60000), ms |-> total % 60000]

\* minutes from base to 2024-01-01 00:00 (Oct 1 10:00 + 91 days 14 hours)
MinutesLeftIn2023 == ((91 * 24) + 14) * 60
MinutesIn2024 == 366 * 24 * 60
MinutesInCommonYear == 365 * 24 * 60
\* minutes from 2023-01-01 00:00 to base (273 days 10 hours)
MinutesBeforeBase == ((273 * 24) + 10) * 60

\* t.Year()
Year(t) ==
    IF t.min < MinutesLeftIn2023
    THEN (IF t.min >= -MinutesBeforeBase THEN 2023 ELSE 2022)
    ELSE IF t.min < MinutesLeftIn2023 + MinutesIn2024 THEN 2024
    ELSE 2025 + ((t.min - MinutesLeftIn2023 - MinutesIn2024) \div MinutesInCommonYear)

TimeLess(s, t) == s.min < t.min \/ (s.min = t.min /\ s.ms < t.ms)

(***************************************************************************)
(* Domain model.                                                           *)
(***************************************************************************)
NewUser(id, created, email, active) ==
    [Id |-> id, Created |-> created, Email |-> email, Active |-> active]
NewArticle(id, created, userId, text) ==
    [Id |-> id, Created |-> created, UserId |-> userId, Text |-> text]
NewComment(id, created, articleId, text) ==
    [Id |-> id, Created |-> created, ArticleId |-> articleId, Text |-> text]

\* the zero value of User
ZeroUser == NewUser(0, Base, <<>>, FALSE)

(***************************************************************************)
(* The benchmarks of Run, in the order Run calls them.                     *)
(***************************************************************************)
Benchmarks ==
    << [kind |-> "simple", arg |-> SimpleNusers],
       [kind |-> "complex", arg |-> ComplexNusers],
       [kind |-> "many", arg |-> ManyN1],
       [kind |-> "many", arg |-> ManyN2],
       [kind |-> "many", arg |-> ManyN3],
       [kind |-> "large", arg |-> LargeSize1],
       [kind |-> "large", arg |-> LargeSize2],
       [kind |-> "large", arg |-> LargeSize3],
       [kind |-> "concurrent", arg |-> NGoroutines1],
       [kind |-> "concurrent", arg |-> NGoroutines2],
       [kind |-> "concurrent", arg |-> NGoroutines3] >>

Max(a, b) == IF a >= b THEN a ELSE b
MaxGoroutines == Max(NGoroutines1, Max(NGoroutines2, NGoroutines3))
Readers == 1 .. MaxGoroutines
\* the connection of the scenario's own goroutine (db, db1); reader r holds connection r
MainConn == 0

VARIABLES
    dbfile,        \* flag.Arg(0)
    exit,          \* "running", "fatal" (the process was terminated) or "ok"
    fatalAt,       \* what terminated the process
    scn,           \* the benchmark of Benchmarks that Run is in
    pc,            \* the position of the scenario's goroutine
    now,           \* the clock read by time.Now()
    store,         \* the storage file(s) behind dbfile
    open,          \* the connections that are open
    faultsLeft,    \* how often the backend may still misbehave
    defect,        \* how the backend has misbehaved in this scenario, if it has
    cx,            \* nusers, narticlesPerUser, ncommentsPerArticle of benchComplex
    users, articles, comments,    \* the scenario's slices
    gen,           \* loop variables and id counters of benchComplex's generator
    t0, insertMillis, queryMillis,
    qi,            \* the loop variable of benchMany's query loop and of benchConcurrent's spawn loop
    rd,            \* the reader goroutines of benchConcurrent
    wg,            \* the sync.WaitGroup counter
    reports,       \* the data lines printed so far
    returned,      \* history: how the answers to this scenario's queries were wrong
    hist,          \* history: the reader connections opened in this scenario, when
                   \* its first reader was launched and when its latest reader ended
    access         \* history: which readers wrote and read the captured variable users

ctl == <<dbfile, exit, fatalAt, scn, pc>>
env == <<store, open, faultsLeft, defect>>
loc == <<users, articles, comments, gen, t0, insertMillis, queryMillis, qi>>
con == <<rd, wg, access>>
his == <<returned, hist>>
vars == <<dbfile, exit, fatalAt, scn, pc, now, store, open, faultsLeft, defect, cx, users,
          articles, comments, gen, t0, insertMillis, queryMillis, qi, rd, wg,
          reports, returned, hist, access>>

Kind == Benchmarks[scn].kind
Arg == Benchmarks[scn].arg

\* nusers of the scenario Run is in
Nusers ==
    CASE Kind = "simple" -> SimpleNusers
      [] Kind = "complex" -> cx.nusers
      [] Kind = "many" -> Arg
      [] Kind = "large" -> LargeNusers
      [] Kind = "concurrent" -> ConcNusers

\* an unset duration or instant
None == 0 - 1

(***************************************************************************)
(* The generators of the four single-table scenarios: the loops            *)
(*   for i := 0; i < nusers; i++ { users = append(users, NewUser(...)) }   *)
(***************************************************************************)
\* SimpleUser with the rows an hour apart, not a minute
SimpleUserHourly(i) == NewUser(i + 1, TimeAdd(Base, i * 60, 0, 0), SprintfUser08(i + 1), TRUE)
\* the row benchSimple and benchMany build for loop index i
SimpleUser(i) == NewUser(i + 1, TimeAdd(Base, i, 0, 0), SprintfUser08(i + 1), TRUE)
\* the row benchLarge builds for loop index i
LargeUser(i, nsize) == NewUser(i + 1, TimeAdd(Base, 0, i, 0), Repeat(StrA, nsize), TRUE)
\* the row benchConcurrent builds for loop index i
ConcurrentUser(i) == NewUser(i + 1, TimeAdd(Base, 0, i, 0), SprintfUser(i + 1), TRUE)

GenRow(kind, i, arg) ==
    CASE kind = "large" -> LargeUser(i, arg)
      [] kind = "concurrent" -> ConcurrentUser(i)
      [] OTHER -> SimpleUser(i)

RECURSIVE GenLoop(_, _, _, _, _)
\* the loop from index i on, appending to acc
GenLoop(kind, i, n, arg, acc) ==
    IF i < n THEN GenLoop(kind, i + 1, n, arg, Append(acc, GenRow(kind, i, arg)))
    ELSE acc

GenUsers(kind, n, arg) == GenLoop(kind, 0, n, arg, <<>>)

(***************************************************************************)
(* The storage backend: the environment of the harness.  Tables are sets   *)
(* of rows; a query orders them as its ORDER BY clause says.               *)
(***************************************************************************)
EmptyStore == [schema |-> FALSE, users |-> {}, articles |-> {}, comments |-> {}]

Range(q) == {q[i] : i \in 1 .. Len(q)}

RECURSIVE OrderById(_)
\* the rows of S in ascending id order
OrderById(S) ==
    IF S = {} THEN <<>>
    ELSE LET m == CHOOSE r \in S : \A q \in S : r.Id <= q.Id
         IN  <<m>> \o OrderById(S \ {m})

\* SELECT id,created,email,active FROM users ORDER BY id
SelectUsers(st) == OrderById(st.users)

Reverse(q) == [i \in 1 .. Len(q) |-> q[Len(q) + 1 - i]]
DropLast(q) == SubSeq(q, 1, Len(q) - 1)

ThreeYears == 3 * MinutesIn2024

\* The ways a misbehaving backend answers the users query: too few rows, too
\* many, or a wrong value in one column of one row.
NoDefect == <<"none", 0>>
UsersDefectKinds(good) ==
    {<<"long", 0>>} \cup
    (IF Len(good) = 0 THEN {}
     ELSE {<<"short", 0>>, <<"id", Len(good)>>, <<"year", Len(good)>>, <<"email", 1>>}
          \cup {<<"active", k>> : k \in {1, Len(good)}})

\* the answer with defect d in place of the rows good
CorruptUsers(good, d) ==
    CASE d[1] = "short" -> DropLast(good)
      [] d[1] = "long" -> Append(good, IF Len(good) = 0 THEN ZeroUser ELSE good[Len(good)])
      [] d[1] = "id" -> [good EXCEPT ![d[2]].Id = @ + 1]
      [] d[1] = "year" -> [good EXCEPT ![d[2]].Created.min = @ + ThreeYears]
      [] d[1] = "email" -> [good EXCEPT ![d[2]].Email = <<"x">> \o Tail(@)]
      [] d[1] = "active" -> [good EXCEPT ![d[2]].Active = ~@]

\* the outcomes of FindUsers: the rows asked for, or, while the backend may
\* still misbehave, a wrong answer; within one scenario the backend
\* misbehaves in one way
FindUsersResults(st, faults, d) ==
    {[res |-> SelectUsers(st), defect |-> d]} \cup
    (IF faults > 0
     THEN {[res |-> CorruptUsers(SelectUsers(st), k), defect |-> k] :
             k \in IF d = NoDefect THEN UsersDefectKinds(SelectUsers(st))
                   ELSE {d} \cap UsersDefectKinds(SelectUsers(st))}
     ELSE {})

\* dbsize(dbfile): the size of the storage file grows with what it holds
DbSize(st) ==
    (IF st.schema THEN 1 ELSE 0) + Cardinality(st.users) + Cardinality(st.articles)
    + Cardinality(st.comments)

\* a storage file left behind by an earlier run
StaleStore ==
    [schema |-> TRUE, users |-> {NewUser(1, Base, <<"o", "l", "d">>, FALSE)},
     articles |-> {}, comments |-> {}]

(***************************************************************************)
(* Initial state: the process has started, Run has not yet read its        *)
(* argument.                                                               *)
(***************************************************************************)
ZeroGen == [u |-> 0, a |-> 0, c |-> 0, userId |-> 0, articleId |-> 0, commentId |-> 0]
IdleReaders == [r \in Readers |-> [pc |-> "idle", res |-> <<>>, seen |-> <<>>]]
NoAccess == [w |-> {}, r |-> {}]
NoHist == [opens |-> 0, firstLaunch |-> None, lastExit |-> None]

\* the state on entry to Run, for the targets and the fault budget given
Start(targets, faults) ==
    /\ dbfile \in targets
    /\ exit = "running"
    /\ fatalAt = ""
    /\ scn = 1
    /\ pc = "start"
    /\ now = 0
    /\ store \in {EmptyStore, StaleStore}
    /\ open = {}
    /\ faultsLeft = faults
    /\ defect = NoDefect
    /\ cx = [nusers |-> ComplexNusers, narticlesPerUser |-> ComplexNarticles,
             ncommentsPerArticle |-> ComplexNcomments]
    /\ users = <<>>
    /\ articles = <<>>
    /\ comments = <<>>
    /\ gen = ZeroGen
    /\ t0 = None
    /\ insertMillis = None
    /\ queryMillis = None
    /\ qi = 0
    /\ rd = IdleReaders
    /\ wg = 0
    /\ reports = <<>>
    /\ returned = {}
    /\ hist = NoHist
    /\ access = NoAccess

Init == Start({"", "bench.db"}, MaxFaults)

(***************************************************************************)
(* Fatal termination: log.Fatal and the Must helpers end the process at    *)
(* once.  Nothing of the process runs afterwards, deferred calls included, *)
(* and its memory is gone; what it wrote to the file and to its output     *)
(* stays.                                                                  *)
(***************************************************************************)
Fatal(cause) ==
    /\ exit' = "fatal"
    /\ fatalAt' = cause
    /\ users' = <<>> /\ articles' = <<>> /\ comments' = <<>>
    /\ gen' = ZeroGen
    /\ t0' = None /\ insertMillis' = None /\ queryMillis' = None
    /\ qi' = 0
    /\ rd' = IdleReaders /\ wg' = 0 /\ access' = NoAccess
    /\ hist' = NoHist
    /\ UNCHANGED <<dbfile, scn, pc, store, cx, reports, returned, defect>>

\* one step of the scenario's goroutine to position next
Goto(next) ==
    /\ pc' = next
    /\ UNCHANGED <<dbfile, exit, fatalAt, scn>>

Tick == now' = now + 1

(***************************************************************************)
(* Run                                                                     *)
(***************************************************************************)
\* RunStart with the check of lines 23-25 left out
RunStartUnchecked ==
    /\ exit = "running" /\ pc = "start"
    /\ Goto("remove")
    /\ Tick
    /\ UNCHANGED <<env, cx, loc, con, reports, his>>

RunStart ==
    /\ exit = "running" /\ pc = "start"
    /\ IF dbfile = ""
       THEN Fatal("dbfile empty")
       ELSE Goto("remove") /\ UNCHANGED <<store, defect, cx, loc, con, reports, his>>
    /\ Tick
    /\ UNCHANGED <<open, faultsLeft>>

(***************************************************************************)
(* The steps the scenarios share.                                          *)
(***************************************************************************)
\* RemoveDbfiles with the removeDbfiles(dbfile) of line 98 left out: the
\* storage files stay as they are
RemoveDbfilesDropped ==
    /\ exit = "running" /\ pc = "remove"
    /\ users' = <<>> /\ articles' = <<>> /\ comments' = <<>>
    /\ gen' = ZeroGen
    /\ t0' = None /\ insertMillis' = None /\ queryMillis' = None
    /\ qi' = 0
    /\ rd' = IdleReaders /\ wg' = 0 /\ access' = NoAccess
    /\ returned' = {}
    /\ hist' = NoHist
    /\ defect' = NoDefect
    /\ Goto("open")
    /\ Tick
    /\ UNCHANGED <<store, open, faultsLeft, cx, reports>>

\* removeDbfiles(dbfile), on entry to a scenario, whose locals are fresh
RemoveDbfiles ==
    /\ exit = "running" /\ pc = "remove"
    /\ store' = EmptyStore
    /\ users' = <<>> /\ articles' = <<>> /\ comments' = <<>>
    /\ gen' = ZeroGen
    /\ t0' = None /\ insertMillis' = None /\ queryMillis' = None
    /\ qi' = 0
    /\ rd' = IdleReaders /\ wg' = 0 /\ access' = NoAccess
    /\ returned' = {}
    /\ hist' = NoHist
    /\ defect' = NoDefect
    /\ Goto("open")
    /\ Tick
    /\ UNCHANGED <<open, faultsLeft, cx, reports>>

\* db := makeDb(dbfile)
MakeDb ==
    /\ exit = "running" /\ pc = "open"
    /\ open' = open \cup {MainConn}
    /\ Goto("schema")
    /\ Tick
    /\ UNCHANGED <<store, faultsLeft, defect, cx, loc, con, reports, his>>

\* initSchema(db): db.Exec fails fatally on any error, and CREATE TABLE on a
\* file that holds the tables already is one
InitSchema ==
    /\ exit = "running" /\ pc = "schema"
    /\ \E fail \in BOOLEAN :
        /\ fail => faultsLeft > 0
        /\ faultsLeft' = IF fail THEN faultsLeft - 1 ELSE faultsLeft
        /\ IF fail \/ store.schema
           THEN Fatal("exec")
           ELSE /\ store' = [store EXCEPT !.schema = TRUE]
                /\ Goto(IF Kind = "complex" THEN "gen_u" ELSE "generate")
                /\ UNCHANGED <<defect, cx, loc, con, reports, his>>
    /\ Tick
    /\ UNCHANGED open

\* Generate with the timestamps counted from time.Now() instead of from base
GenerateFromClock ==
    /\ exit = "running" /\ pc = "generate"
    /\ users' = [k \in 1 .. Nusers |->
                    [GenUsers(Kind, Nusers, Arg)[k] EXCEPT !.Created = TimeAdd(@, now, 0, 0)]]
    /\ Goto(IF Kind \in {"simple", "many"} THEN "t0_insert" ELSE "insert_users")
    /\ Tick
    /\ UNCHANGED <<env, cx, articles, comments, gen, t0, insertMillis, queryMillis, qi,
                   con, reports, his>>

\* the generator loop of benchSimple, benchMany, benchLarge and benchConcurrent
Generate ==
    /\ exit = "running" /\ pc = "generate"
    /\ users' = GenUsers(Kind, Nusers, Arg)
    /\ Goto(IF Kind \in {"simple", "many"} THEN "t0_insert" ELSE "insert_users")
    /\ Tick
    /\ UNCHANGED <<env, cx, articles, comments, gen, t0, insertMillis, queryMillis, qi,
                   con, reports, his>>

\* t0 := time.Now() before the insert phase and t0 = time.Now() before the query phase
TimeNow ==
    /\ exit = "running" /\ pc \in {"t0_insert", "t0_query"}
    /\ t0' = now
    /\ Goto(IF pc = "t0_insert" THEN "insert_users"
            ELSE CASE Kind = "complex" -> "find_join"
                   [] Kind = "concurrent" -> "spawn"
                   [] Kind = "many" -> (IF 0 < ManyQueries THEN "find" ELSE "end_query")
                   [] OTHER -> "find")
    /\ Tick
    /\ UNCHANGED <<env, cx, users, articles, comments, gen, insertMillis, queryMillis, qi,
                   con, reports, his>>

\* db.InsertUsers(insertUserSql, users): one transaction, visible when it returns
InsertUsers ==
    /\ exit = "running" /\ pc = "insert_users"
    /\ store' = [store EXCEPT !.users = @ \cup Range(users)]
    /\ Goto(CASE Kind \in {"simple", "many"} -> "end_insert"
              [] Kind = "complex" -> "insert_articles"
              [] Kind = "large" -> "t0_query"
              [] Kind = "concurrent" -> "close_db1")
    /\ Tick
    /\ UNCHANGED <<open, faultsLeft, defect, cx, loc, con, reports, his>>

\* MillisSinceInsert with line 116 left out: the insert phase is not timed
MillisSinceInsertDropped ==
    /\ exit = "running" /\ pc = "end_insert"
    /\ Goto("t0_query")
    /\ Tick
    /\ UNCHANGED <<env, cx, loc, con, reports, his>>

\* insertMillis := millisSince(t0)
MillisSinceInsert ==
    /\ exit = "running" /\ pc = "end_insert"
    /\ insertMillis' = now - t0
    /\ Goto("t0_query")
    /\ Tick
    /\ UNCHANGED <<env, cx, users, articles, comments, gen, t0, queryMillis, qi, con,
                   reports, his>>

(***************************************************************************)
(* The generator's invariants, as the scenarios' data is meant to satisfy  *)
(* them; the history variable returned records against them what the       *)
(* backend answered.                                                       *)
(***************************************************************************)
IsPrefix(p, e) == Len(p) <= Len(e) /\ \A j \in 1 .. Len(p) : e[j] = p[j]
ExpectedYears(kind) == IF kind = "simple" THEN 2023 .. 2025 ELSE {2023}
ExpectedPrefix(kind) ==
    CASE kind = "large" -> StrA
      [] kind = "concurrent" -> StrUser
      [] OTHER -> StrUser0

\* the user at 0-based position i has id i+1, a created year in the expected
\* range, the expected email prefix and is active
Conforms(kind, i, u) ==
    /\ u.Id = i + 1
    /\ Year(u.Created) \in ExpectedYears(kind)
    /\ IsPrefix(ExpectedPrefix(kind), u.Email)
    /\ u.Active

AllConform(kind, us) == \A k \in 1 .. Len(us) : Conforms(kind, k - 1, us[k])

\* how an answer to the users query is wrong: in its row count, in a row
UsersDefects(res) ==
    (IF Len(res) # Nusers THEN {"count"} ELSE {})
    \cup (IF AllConform(Kind, res) THEN {} ELSE {"row"})

\* users = db.FindUsers("SELECT id,created,email,active FROM users ORDER BY id")
FindUsers ==
    /\ exit = "running" /\ pc = "find"
    /\ \E ans \in FindUsersResults(store, faultsLeft, defect) :
        /\ users' = ans.res
        /\ returned' = returned \cup UsersDefects(ans.res)
        /\ defect' = ans.defect
        /\ faultsLeft' = IF ans.res = SelectUsers(store) THEN faultsLeft ELSE faultsLeft - 1
    /\ Goto("check_len")
    /\ Tick
    /\ UNCHANGED <<store, open, cx, articles, comments, gen, t0, insertMillis, queryMillis,
                   qi, con, reports, hist>>

\* CheckLen with the MustBeEqual of the row count left out
CheckLenDropped ==
    /\ exit = "running" /\ pc = "check_len"
    /\ IF Kind = "many"
       THEN qi' = qi + 1 /\ Goto(IF qi + 1 < ManyQueries THEN "find" ELSE "end_query")
       ELSE qi' = qi /\ Goto("end_query")
    /\ Tick
    /\ UNCHANGED <<env, cx, users, articles, comments, gen, t0, insertMillis, queryMillis,
                   con, reports, his>>

\* MustBeEqual(len(users), nusers), and in benchMany the loop's i++ and test
CheckLen ==
    /\ exit = "running" /\ pc = "check_len"
    /\ IF Len(users) = Nusers
       THEN /\ IF Kind = "many"
               THEN qi' = qi + 1
                    /\ Goto(IF qi + 1 < ManyQueries THEN "find" ELSE "end_query")
               ELSE qi' = qi /\ Goto("end_query")
            /\ UNCHANGED <<store, defect, cx, users, articles, comments, gen, t0,
                           insertMillis, queryMillis, con, reports, his>>
       ELSE Fatal("len")
    /\ Tick
    /\ UNCHANGED <<open, faultsLeft>>

\* queryMillis := millisSince(t0)
MillisSinceQuery ==
    /\ exit = "running" /\ pc = "end_query"
    /\ queryMillis' = now - t0
    /\ Goto(IF Kind = "concurrent" THEN "report" ELSE "validate")
    /\ Tick
    /\ UNCHANGED <<env, cx, users, articles, comments, gen, t0, insertMillis, qi, con,
                   reports, his>>

\* the year check of the scenario's validation loop
YearPasses(kind, y) == IF kind = "simple" THEN 2023 <= y /\ y <= 2025 ELSE 2023 = y
\* the email check of the scenario's validation loop
EmailPasses(kind, e) ==
    CASE kind = "large" -> HasPrefix(e, 1, StrA)
      [] kind = "concurrent" -> HasPrefix(e, 4, StrUser)
      [] OTHER -> HasPrefix(e, 5, StrUser0)

\* RowPasses with the MustBeEqual of the active flag left out
RowPassesActiveDropped(kind, i, u) ==
    /\ i + 1 = u.Id
    /\ YearPasses(kind, Year(u.Created))
    /\ EmailPasses(kind, u.Email)

\* the body of "for i, u := range users", for the row u at 0-based index i
RowPasses(kind, i, u) ==
    /\ i + 1 = u.Id
    /\ YearPasses(kind, Year(u.Created))
    /\ EmailPasses(kind, u.Email)
    /\ TRUE = u.Active

\* the loop "for i, u := range users" runs to its end
RowsPass(kind, us) == \A k \in 1 .. Len(us) : RowPasses(kind, k - 1, us[k])

\* ValidateUsers with a failed check downgraded to a warning: the scenario
\* goes on to its report
ValidateUsersWarnOnly ==
    /\ exit = "running" /\ pc = "validate" /\ Kind \in {"simple", "many", "large"}
    /\ Goto("report")
    /\ Tick
    /\ UNCHANGED <<env, cx, loc, con, reports, his>>

\* the validation loop of benchSimple, benchMany and benchLarge
ValidateUsers ==
    /\ exit = "running" /\ pc = "validate" /\ Kind \in {"simple", "many", "large"}
    /\ IF RowsPass(Kind, users)
       THEN Goto("report") /\ UNCHANGED <<store, defect, cx, loc, con, reports, his>>
       ELSE Fatal("validate")
    /\ Tick
    /\ UNCHANGED <<open, faultsLeft>>

\* the data line a scenario prints: its label, its columns and their values
ReportLine ==
    CASE Kind = "simple" ->
           [label |-> <<"simple">>, cols |-> <<"insert", "query", "dbsize">>,
            vals |-> <<insertMillis, queryMillis, DbSize(store)>>]
      [] Kind = "complex" ->
           [label |-> <<"complex", cx.nusers, cx.narticlesPerUser, cx.ncommentsPerArticle>>,
            cols |-> <<"insert", "query", "dbsize">>,
            vals |-> <<insertMillis, queryMillis, DbSize(store)>>]
      [] OTHER ->
           [label |-> <<Kind, Arg>>, cols |-> <<"query", "dbsize">>,
            vals |-> <<queryMillis, DbSize(store)>>]

\* the two log.Printf calls under "print results"
Report ==
    /\ exit = "running" /\ pc = "report"
    /\ reports' = Append(reports, ReportLine)
    /\ Goto("return")
    /\ Tick
    /\ UNCHANGED <<env, cx, loc, con, his>>

\* Return with the "defer db.Close()" left out
ReturnWithoutClose ==
    /\ exit = "running" /\ pc = "return"
    /\ IF scn < Len(Benchmarks)
       THEN scn' = scn + 1 /\ pc' = "remove" /\ exit' = exit
       ELSE scn' = scn /\ pc' = "done" /\ exit' = "ok"
    /\ Tick
    /\ UNCHANGED <<dbfile, fatalAt, env, cx, loc, con, reports, his>>

\* the scenario returns: the deferred db.Close() runs (benchConcurrent defers
\* none), and Run goes on to its next call or returns itself
Return ==
    /\ exit = "running" /\ pc = "return"
    /\ open' = IF Kind = "concurrent" THEN open ELSE open \ {MainConn}
    /\ IF scn < Len(Benchmarks)
       THEN scn' = scn + 1 /\ pc' = "remove" /\ exit' = exit
       ELSE scn' = scn /\ pc' = "done" /\ exit' = "ok"
    /\ Tick
    /\ UNCHANGED <<dbfile, fatalAt, store, faultsLeft, defect, cx, loc, con, reports,
                   his>>

(***************************************************************************)
(* benchComplex: the generator loops, one iteration (or loop exit) a step. *)
(***************************************************************************)
\* for u := 0; u < nusers; u++ { userId++; users = append(users, NewUser(...)); ...
GenUser ==
    /\ exit = "running" /\ pc = "gen_u"
    /\ IF gen.u < cx.nusers
       THEN /\ gen' = [gen EXCEPT !.userId = @ + 1, !.a = 0]
            /\ users' = Append(users, NewUser(gen.userId + 1, TimeAdd(Base, gen.u, 0, 0),
                                               SprintfUser08(gen.u + 1), gen.u % 2 = 0))
            /\ Goto("gen_a")
       ELSE /\ UNCHANGED <<gen, users>>
            /\ Goto("t0_insert")
    /\ Tick
    /\ UNCHANGED <<env, cx, articles, comments, t0, insertMillis, queryMillis, qi, con,
                   reports, his>>

\* GenArticle with the article given the id of the user after its own
GenArticleNextUser ==
    /\ exit = "running" /\ pc = "gen_a"
    /\ IF gen.a < cx.narticlesPerUser
       THEN /\ gen' = [gen EXCEPT !.articleId = @ + 1, !.c = 0]
            /\ articles' = Append(articles,
                   NewArticle(gen.articleId + 1,
                              TimeAdd(TimeAdd(Base, gen.u, 0, 0), 0, gen.a, 0),
                              gen.userId + 1, "article text"))
            /\ Goto("gen_c")
       ELSE /\ gen' = [gen EXCEPT !.u = @ + 1]
            /\ UNCHANGED articles
            /\ Goto("gen_u")
    /\ Tick
    /\ UNCHANGED <<env, cx, users, comments, t0, insertMillis, queryMillis, qi, con,
                   reports, his>>

\* for a := 0; a < narticlesPerUser; a++ { articleId++; articles = append(...); ...
GenArticle ==
    /\ exit = "running" /\ pc = "gen_a"
    /\ IF gen.a < cx.narticlesPerUser
       THEN /\ gen' = [gen EXCEPT !.articleId = @ + 1, !.c = 0]
            /\ articles' = Append(articles,
                   NewArticle(gen.articleId + 1,
                              TimeAdd(TimeAdd(Base, gen.u, 0, 0), 0, gen.a, 0),
                              gen.userId, "article text"))
            /\ Goto("gen_c")
       ELSE /\ gen' = [gen EXCEPT !.u = @ + 1]
            /\ UNCHANGED articles
            /\ Goto("gen_u")
    /\ Tick
    /\ UNCHANGED <<env, cx, users, comments, t0, insertMillis, queryMillis, qi, con,
                   reports, his>>

\* for c := 0; c < ncommentsPerArticle; c++ { commentId++; comments = append(...) }
GenComment ==
    /\ exit = "running" /\ pc = "gen_c"
    /\ IF gen.c < cx.ncommentsPerArticle
       THEN /\ gen' = [gen EXCEPT !.commentId = @ + 1, !.c = @ + 1]
            /\ comments' = Append(comments,
                   NewComment(gen.commentId + 1,
                              TimeAdd(TimeAdd(TimeAdd(Base, gen.u, 0, 0), 0, gen.a, 0),
                                      0, 0, gen.c),
                              gen.articleId, "comment text"))
            /\ Goto("gen_c")
       ELSE /\ gen' = [gen EXCEPT !.a = @ + 1]
            /\ UNCHANGED comments
            /\ Goto("gen_a")
    /\ Tick
    /\ UNCHANGED <<env, cx, users, articles, t0, insertMillis, queryMillis, qi, con,
                   reports, his>>

\* db.InsertArticles(insertArticleSql, articles)
InsertArticles ==
    /\ exit = "running" /\ pc = "insert_articles"
    /\ store' = [store EXCEPT !.articles = @ \cup Range(articles)]
    /\ Goto("insert_comments")
    /\ Tick
    /\ UNCHANGED <<open, faultsLeft, defect, cx, loc, con, reports, his>>

\* db.InsertComments(insertCommentSql, comments)
InsertComments ==
    /\ exit = "running" /\ pc = "insert_comments"
    /\ store' = [store EXCEPT !.comments = @ \cup Range(comments)]
    /\ Goto("end_insert")
    /\ Tick
    /\ UNCHANGED <<open, faultsLeft, defect, cx, loc, con, reports, his>>

(***************************************************************************)
(* The join query of benchComplex, as the backend answers it.              *)
(***************************************************************************)
\* the columns of a LEFT JOIN row whose right side matched nothing
NullArticle == NewArticle(0, Base, 0, "")
NullComment == NewComment(0, Base, 0, "")

\* users LEFT JOIN articles ON articles.userId = users.id
\*       LEFT JOIN comments ON comments.articleId = articles.id
JoinRows(st) ==
    UNION {
        LET as == {a \in st.articles : a.UserId = u.Id}
        IN  IF as = {} THEN {[u |-> u, a |-> NullArticle, c |-> NullComment]}
            ELSE UNION {
                LET cs == {c \in st.comments : c.ArticleId = a.Id}
                IN  IF cs = {} THEN {[u |-> u, a |-> a, c |-> NullComment]}
                    ELSE {[u |-> u, a |-> a, c |-> c] : c \in cs}
                : a \in as}
        : u \in st.users}

\* NULL sorts before every value
CreatedLess(x, y) ==
    IF x.Id = 0 \/ y.Id = 0 THEN x.Id = 0 /\ y.Id # 0
    ELSE TimeLess(x.Created, y.Created)

\* ORDER BY users.created, articles.created, comments.created
JoinLess(x, y) ==
    \/ CreatedLess(x.u, y.u)
    \/ (~CreatedLess(y.u, x.u) /\ CreatedLess(x.a, y.a))
    \/ (~CreatedLess(y.u, x.u) /\ ~CreatedLess(y.a, x.a) /\ CreatedLess(x.c, y.c))

\* rows with equal sort keys come in the order of their ids
IdsLess(x, y) ==
    \/ x.u.Id < y.u.Id
    \/ (x.u.Id = y.u.Id /\ x.a.Id < y.a.Id)
    \/ (x.u.Id = y.u.Id /\ x.a.Id = y.a.Id /\ x.c.Id < y.c.Id)

\* the order of the row stream
JoinBefore(x, y) == JoinLess(x, y) \/ (~JoinLess(y, x) /\ IdsLess(x, y))

\* the rows of S in the order of the row stream
OrderJoin(S) ==
    [k \in 1 .. Cardinality(S) |->
        CHOOSE r \in S : Cardinality({q \in S : JoinBefore(q, r)}) = k - 1]

\* the rows of S cut down to their user, and to their user and article where
\* they have one: one row for each user and for each article of the stream
UserRows(S) == {[r EXCEPT !.a = NullArticle, !.c = NullComment] : r \in S}
ArticleRows(S) == {[r EXCEPT !.c = NullComment] : r \in {q \in S : q.a.Id # 0}}
CommentRows(S) == {r \in S : r.c.Id # 0}

\* the three sequences built from the row stream: a parent is appended when
\* its id shows for the first time, NULL columns are skipped
SelectJoin(st) ==
    [users |-> [k \in 1 .. Cardinality(UserRows(JoinRows(st))) |->
                   OrderJoin(UserRows(JoinRows(st)))[k].u],
     articles |-> [k \in 1 .. Cardinality(ArticleRows(JoinRows(st))) |->
                      OrderJoin(ArticleRows(JoinRows(st)))[k].a],
     comments |-> [k \in 1 .. Cardinality(CommentRows(JoinRows(st))) |->
                      OrderJoin(CommentRows(JoinRows(st)))[k].c]]

\* the last element of q changed by f, if q has one
CorruptLast(q, f(_)) == IF Len(q) = 0 THEN {} ELSE {[q EXCEPT ![Len(q)] = f(@)]}
SetUserId(a, v) == [a EXCEPT !.UserId = v]
SetArticleId(c, v) == [c EXCEPT !.ArticleId = v]

\* what a misbehaving backend may return in place of the join result good
CorruptJoin(good, nusers, narticles) ==
    {[good EXCEPT !.users = CorruptUsers(good.users, k)] : k \in UsersDefectKinds(good.users)}
    \cup {[good EXCEPT !.articles = v] :
            v \in {DropLast(good.articles), Reverse(good.articles)}
                  \cup CorruptLast(good.articles, LAMBDA a : SetUserId(a, 0))
                  \cup CorruptLast(good.articles, LAMBDA a : SetUserId(a, nusers + 1))
                  \cup CorruptLast(good.articles, LAMBDA a : SetUserId(a, nusers + 2))
                  \cup (IF Len(good.articles) = 0 THEN {}
                        ELSE {[good.articles EXCEPT ![1].UserId = nusers + 1]})
                  \cup CorruptLast(good.articles, LAMBDA a : [a EXCEPT !.Text = "text"])
                  \cup CorruptLast(good.articles,
                                   LAMBDA a : [a EXCEPT !.Created.min = @ + ThreeYears])}
    \cup {[good EXCEPT !.comments = v] :
            v \in {DropLast(good.comments), Reverse(good.comments)}
                  \cup CorruptLast(good.comments, LAMBDA c : SetArticleId(c, 0))
                  \cup CorruptLast(good.comments, LAMBDA c : SetArticleId(c, narticles + 1))
                  \cup CorruptLast(good.comments, LAMBDA c : SetArticleId(c, narticles + 2))
                  \cup (IF Len(good.comments) = 0 THEN {}
                        ELSE {[good.comments EXCEPT ![1].ArticleId = narticles + 1]})
                  \cup CorruptLast(good.comments, LAMBDA c : [c EXCEPT !.Text = "text"])
                  \cup CorruptLast(good.comments,
                                   LAMBDA c : [c EXCEPT !.Created.min = @ + ThreeYears])}

FindJoinResults(st, faults, nusers, narticles) ==
    {SelectJoin(st)} \cup
    (IF faults > 0 THEN CorruptJoin(SelectJoin(st), nusers, narticles) \ {SelectJoin(st)}
     ELSE {})

\* how an answer to the join query is wrong: in a row count, in a row (its
\* id, its created year, and for a user its email prefix and active flag)
JoinDefects(res) ==
    (IF \/ Len(res.users) # cx.nusers
        \/ Len(res.articles) # cx.nusers * cx.narticlesPerUser
        \/ Len(res.comments) # cx.nusers * cx.narticlesPerUser * cx.ncommentsPerArticle
     THEN {"count"} ELSE {})
    \cup (IF /\ \A k \in 1 .. Len(res.users) :
                  /\ res.users[k].Id = k
                  /\ Year(res.users[k].Created) = 2023
                  /\ IsPrefix(StrUser0, res.users[k].Email)
                  /\ res.users[k].Active = (k % 2 = 1)
             /\ \A k \in 1 .. Len(res.articles) :
                  /\ res.articles[k].Id = k
                  /\ Year(res.articles[k].Created) = 2023
                  /\ res.articles[k].Text = "article text"
             /\ \A k \in 1 .. Len(res.comments) :
                  /\ res.comments[k].Id = k
                  /\ Year(res.comments[k].Created) = 2023
                  /\ res.comments[k].Text = "comment text"
          THEN {} ELSE {"row"})

\* users, articles, comments = db.FindUsersArticlesComments(querySql)
FindUsersArticlesComments ==
    /\ exit = "running" /\ pc = "find_join"
    /\ \E res \in FindJoinResults(store, faultsLeft, cx.nusers,
                                  cx.nusers * cx.narticlesPerUser) :
        /\ users' = res.users
        /\ articles' = res.articles
        /\ comments' = res.comments
        /\ returned' = returned \cup JoinDefects(res)
        /\ defect' = IF res = SelectJoin(store) THEN defect ELSE <<"join", 0>>
        /\ faultsLeft' = IF res = SelectJoin(store) THEN faultsLeft ELSE faultsLeft - 1
    /\ Goto("end_query")
    /\ Tick
    /\ UNCHANGED <<store, open, cx, gen, t0, insertMillis, queryMillis, qi, con, reports,
                   hist>>

\* the loop "for i, user := range users" of benchComplex
ComplexUsersPass(us) ==
    \A k \in 1 .. Len(us) :
        /\ k = us[k].Id
        /\ 2023 = Year(us[k].Created)
        /\ HasPrefix(us[k].Email, 5, StrUser0)
        /\ ((k - 1) % 2 = 0) = us[k].Active

\* ComplexArticlesPass with the comparison to the previous article left out
ComplexArticlesPassUnordered(as, nusers) ==
    \A k \in 1 .. Len(as) :
        /\ k = as[k].Id
        /\ 2023 = Year(as[k].Created)
        /\ as[k].UserId >= 1
        /\ as[k].UserId <= 1 + nusers
        /\ "article text" = as[k].Text

\* the loop "for i, article := range articles" of benchComplex
ComplexArticlesPass(as, nusers) ==
    \A k \in 1 .. Len(as) :
        /\ k = as[k].Id
        /\ 2023 = Year(as[k].Created)
        /\ as[k].UserId >= 1
        /\ as[k].UserId <= 1 + nusers
        /\ "article text" = as[k].Text
        /\ (k - 1 > 0 => as[k].UserId >= as[k - 1].UserId)

\* the loop "for i, comment := range comments" of benchComplex
ComplexCommentsPass(cs, narticles) ==
    \A k \in 1 .. Len(cs) :
        /\ k = cs[k].Id
        /\ 2023 = Year(cs[k].Created)
        /\ cs[k].ArticleId >= 1
        /\ cs[k].ArticleId <= 1 + narticles
        /\ "comment text" = cs[k].Text
        /\ (k - 1 > 0 => cs[k].ArticleId >= cs[k - 1].ArticleId)

\* everything under "validate query result" in benchComplex
ComplexPasses(us, as, cs, p) ==
    /\ p.nusers = Len(us)
    /\ p.nusers * p.narticlesPerUser = Len(as)
    /\ p.nusers * p.narticlesPerUser * p.ncommentsPerArticle = Len(cs)
    /\ ComplexUsersPass(us)
    /\ ComplexArticlesPass(as, p.nusers)
    /\ ComplexCommentsPass(cs, p.nusers * p.narticlesPerUser)

ValidateComplex ==
    /\ exit = "running" /\ pc = "validate" /\ Kind = "complex"
    /\ IF ComplexPasses(users, articles, comments, cx)
       THEN Goto("report") /\ UNCHANGED <<store, defect, cx, loc, con, reports, his>>
       ELSE Fatal("validate")
    /\ Tick
    /\ UNCHANGED <<open, faultsLeft>>

(***************************************************************************)
(* benchConcurrent                                                         *)
(***************************************************************************)
\* CloseDb1 with the db1.Close() of line 368 left out
CloseDb1Dropped ==
    /\ exit = "running" /\ pc = "close_db1"
    /\ Goto("t0_query")
    /\ Tick
    /\ UNCHANGED <<env, cx, loc, con, reports, his>>

\* db1.Close()
CloseDb1 ==
    /\ exit = "running" /\ pc = "close_db1"
    /\ open' = open \ {MainConn}
    /\ Goto("t0_query")
    /\ Tick
    /\ UNCHANGED <<store, faultsLeft, defect, cx, loc, con, reports, his>>

\* for i := 0; i < ngoroutines; i++ { wg.Add(1); go func() {...}() }
Spawn ==
    /\ exit = "running" /\ pc = "spawn"
    /\ IF qi < Arg
       THEN /\ wg' = wg + 1
            /\ rd' = [rd EXCEPT ![qi + 1].pc = "open"]
            /\ qi' = qi + 1
            /\ hist' = IF hist.firstLaunch = None THEN [hist EXCEPT !.firstLaunch = now]
                       ELSE hist
            /\ Goto("spawn")
       ELSE /\ UNCHANGED <<wg, rd, qi, hist>>
            /\ Goto("wait")
    /\ Tick
    /\ UNCHANGED <<env, cx, users, articles, comments, gen, t0, insertMillis, queryMillis,
                   access, reports, returned>>

\* Wait with the barrier left out: it returns whatever the counter is
WaitWithoutBarrier ==
    /\ exit = "running" /\ pc = "wait"
    /\ Goto("end_query")
    /\ Tick
    /\ UNCHANGED <<env, cx, loc, con, reports, his>>

\* wg.Wait()
Wait ==
    /\ exit = "running" /\ pc = "wait"
    /\ wg = 0
    /\ Goto("end_query")
    /\ Tick
    /\ UNCHANGED <<env, cx, loc, con, reports, his>>

\* one step of reader r to position next
ReaderGoto(r, next) == rd' = [rd EXCEPT ![r].pc = next]

\* db := makeDb(dbfile); db.Exec("PRAGMA ...", "PRAGMA ..."); defer db.Close()
ReaderOpen(r) ==
    /\ exit = "running" /\ rd[r].pc = "open"
    /\ open' = open \cup {r}
    /\ \E fail \in BOOLEAN :
        /\ fail => faultsLeft > 0
        /\ faultsLeft' = IF fail THEN faultsLeft - 1 ELSE faultsLeft
        /\ IF fail THEN Fatal("exec")
           ELSE /\ ReaderGoto(r, "find")
                /\ hist' = [hist EXCEPT !.opens = @ + 1]
                /\ UNCHANGED <<ctl, store, defect, cx, loc, wg, access, reports, returned>>
    /\ Tick

\* users = db.FindUsers(...): the result is stored in the variable users of
\* benchConcurrent, which the closure captures
ReaderFind(r) ==
    /\ exit = "running" /\ rd[r].pc = "find"
    /\ \E ans \in FindUsersResults(store, faultsLeft, defect) :
        /\ rd' = [rd EXCEPT ![r].pc = "len", ![r].res = ans.res]
        /\ users' = ans.res
        /\ returned' = returned \cup UsersDefects(ans.res)
        /\ defect' = ans.defect
        /\ faultsLeft' = IF ans.res = SelectUsers(store) THEN faultsLeft ELSE faultsLeft - 1
    /\ access' = [access EXCEPT !.w = @ \cup {r}]
    /\ Tick
    /\ UNCHANGED <<ctl, store, open, cx, articles, comments, gen, t0, insertMillis,
                   queryMillis, qi, wg, reports, hist>>

\* a slice header read in two words: the length of a with the array of b;
\* past the end of b's array lies memory the program does not control
Torn(a, b) ==
    {t \in [1 .. Len(a) -> Range(a) \cup Range(b) \cup {ZeroUser}] :
        \A i \in 1 .. Len(a) :
            IF i <= Len(b) THEN t[i] = b[i] ELSE t[i] \in {ZeroUser, a[i]}}

\* what reader r may read from users after its own write, unsynchronised
\* with the writes of the other readers: the value it wrote itself, the value
\* now in the variable, or words of the two
RacyRead(r) ==
    {rd[r].res, users} \cup Torn(rd[r].res, users) \cup Torn(users, rd[r].res)

\* MustBeEqual(len(users), nusers)
ReaderCheckLen(r) ==
    /\ exit = "running" /\ rd[r].pc = "len"
    /\ \E v \in RacyRead(r) :
        IF Len(v) = Nusers
        THEN /\ ReaderGoto(r, "validate")
             /\ access' = [access EXCEPT !.r = @ \cup {r}]
             /\ UNCHANGED <<ctl, store, defect, cx, loc, wg, reports, his>>
        ELSE Fatal("len")
    /\ Tick
    /\ UNCHANGED <<open, faultsLeft>>

\* for i, u := range users { MustBeEqual(i+1, u.Id) ... }
ReaderValidate(r) ==
    /\ exit = "running" /\ rd[r].pc = "validate"
    /\ \E v \in RacyRead(r) :
        IF RowsPass("concurrent", v)
        THEN /\ rd' = [rd EXCEPT ![r].pc = "close", ![r].seen = v]
             /\ access' = [access EXCEPT !.r = @ \cup {r}]
             /\ UNCHANGED <<ctl, store, defect, cx, loc, wg, reports, his>>
        ELSE Fatal("validate")
    /\ Tick
    /\ UNCHANGED <<open, faultsLeft>>

\* ReaderClose with the "defer db.Close()" of line 381 left out
ReaderCloseDropped(r) ==
    /\ exit = "running" /\ rd[r].pc = "close"
    /\ ReaderGoto(r, "done")
    /\ Tick
    /\ UNCHANGED <<ctl, env, cx, loc, wg, access, reports, his>>

\* the deferred db.Close() of the reader
ReaderClose(r) ==
    /\ exit = "running" /\ rd[r].pc = "close"
    /\ open' = open \ {r}
    /\ ReaderGoto(r, "done")
    /\ Tick
    /\ UNCHANGED <<ctl, store, faultsLeft, defect, cx, loc, wg, access, reports, his>>

\* ReaderDone with the "defer wg.Done()" of line 375 left out
ReaderDoneWithoutDone(r) ==
    /\ exit = "running" /\ rd[r].pc = "done"
    /\ rd' = [rd EXCEPT ![r] = [pc |-> "exited", res |-> <<>>, seen |-> <<>>]]
    /\ Tick
    /\ UNCHANGED <<ctl, env, cx, loc, wg, access, reports, his>>

\* the deferred wg.Done() of the reader, which ends the goroutine
ReaderDone(r) ==
    /\ exit = "running" /\ rd[r].pc = "done"
    /\ wg' = wg - 1
    /\ rd' = [rd EXCEPT ![r] = [pc |-> "exited", res |-> <<>>, seen |-> <<>>]]
    /\ hist' = IF wg = 1 THEN [hist EXCEPT !.lastExit = now] ELSE hist
    /\ Tick
    /\ UNCHANGED <<ctl, env, cx, loc, access, reports, returned>>

Reader(r) ==
    \/ ReaderOpen(r)
    \/ ReaderFind(r)
    \/ ReaderCheckLen(r)
    \/ ReaderValidate(r)
    \/ ReaderClose(r)
    \/ ReaderDone(r)

\* the steps of the goroutine that runs Run
Main ==
    \/ RunStart
    \/ RemoveDbfiles
    \/ MakeDb
    \/ InitSchema
    \/ Generate
    \/ TimeNow
    \/ InsertUsers
    \/ MillisSinceInsert
    \/ FindUsers
    \/ CheckLen
    \/ MillisSinceQuery
    \/ ValidateUsers
    \/ Report
    \/ Return
    \/ GenUser
    \/ GenArticle
    \/ GenComment
    \/ InsertArticles
    \/ InsertComments
    \/ FindUsersArticlesComments
    \/ ValidateComplex
    \/ CloseDb1
    \/ Spawn
    \/ Wait

Next ==
    \/ Main
    \/ \E r \in Readers : Reader(r)

Spec == Init /\ [][Next]_vars

(***************************************************************************)
(* The run with a target given and a backend that meets its contract, the  *)
(* goroutines scheduled fairly: a goroutine that can take a step does.     *)
(***************************************************************************)
InitHonest == Start({"bench.db"}, 0)

Fairness ==
    /\ WF_vars(Main)
    /\ \A r \in Readers : WF_vars(Reader(r))

SpecHonest == InitHonest /\ [][Next]_vars /\ Fairness

(***************************************************************************)
(* benchComplex on its own, called with any parameters up to the bounds    *)
(* (Run calls it with 200, 100, 20).                                       *)
(***************************************************************************)
ComplexCall == CHOOSE k \in DOMAIN Benchmarks : Benchmarks[k].kind = "complex"

InitComplex ==
    /\ dbfile = "bench.db"
    /\ exit = "running"
    /\ fatalAt = ""
    /\ scn = ComplexCall
    /\ pc = "remove"
    /\ now = 0
    /\ store \in {EmptyStore, StaleStore}
    /\ open = {}
    /\ faultsLeft = MaxFaults
    /\ defect = NoDefect
    /\ cx \in [nusers : 0 .. ComplexNusers,
               narticlesPerUser : 0 .. ComplexNarticles,
               ncommentsPerArticle : 0 .. ComplexNcomments]
    /\ users = <<>> /\ articles = <<>> /\ comments = <<>>
    /\ gen = ZeroGen
    /\ t0 = None /\ insertMillis = None /\ queryMillis = None
    /\ qi = 0
    /\ rd = IdleReaders
    /\ wg = 0
    /\ reports = <<>>
    /\ returned = {}
    /\ hist = NoHist
    /\ access = NoAccess

NextComplex ==
    \/ RemoveDbfiles
    \/ MakeDb
    \/ InitSchema
    \/ GenUser
    \/ GenArticle
    \/ GenComment
    \/ TimeNow
    \/ InsertUsers
    \/ InsertArticles
    \/ InsertComments
    \/ MillisSinceInsert
    \/ FindUsersArticlesComments
    \/ MillisSinceQuery
    \/ ValidateComplex
    \/ Report

SpecComplex == InitComplex /\ [][NextComplex]_vars

(***************************************************************************)
(* The generator loops at the sizes the source gives them, a block of      *)
(* loop iterations a step; only the timestamps are followed.               *)
(***************************************************************************)
\* const nusers of benchSimple
BenchSimpleNusers == 1000000
\* const nusers, narticlesPerUser, ncommentsPerArticle of benchComplex
BenchComplexNusers == 200
BenchComplexNarticlesPerUser == 100
BenchComplexNcommentsPerArticle == 20
\* the largest nusers that Run passes to benchMany
BenchManyNusers == 1000
\* const nusers of benchLarge
BenchLargeNusers == 10000
\* const nusers of benchConcurrent
BenchConcurrentNusers == 1000000

\* nusers of the generator loop of kind
SourceNusers(kind) ==
    CASE kind = "simple" -> BenchSimpleNusers
      [] kind = "complex" -> BenchComplexNusers
      [] kind = "many" -> BenchManyNusers
      [] kind = "large" -> BenchLargeNusers
      [] kind = "concurrent" -> BenchConcurrentNusers

\* how many iterations of the (outer) loop one step runs
GenBlock == 10000
Stride(kind) == IF kind = "complex" THEN 1 ELSE GenBlock

Min(a, b) == IF a <= b THEN a ELSE b

\* Created of the user, article and comment benchComplex builds at u, a, c
ComplexUserCreated(u) == TimeAdd(Base, u, 0, 0)
ComplexArticleCreated(u, a) == TimeAdd(TimeAdd(Base, u, 0, 0), 0, a, 0)
ComplexCommentCreated(u, a, c) == TimeAdd(TimeAdd(TimeAdd(Base, u, 0, 0), 0, a, 0), 0, 0, c)

\* the first call of Run to the scenario of kind
FirstCall(kind) ==
    CHOOSE k \in DOMAIN Benchmarks :
        Benchmarks[k].kind = kind /\ \A j \in 1 .. k - 1 : Benchmarks[j].kind # kind

InitGenerators ==
    /\ dbfile = "bench.db"
    /\ exit = "running"
    /\ fatalAt = ""
    /\ scn \in {FirstCall(Benchmarks[k].kind) : k \in DOMAIN Benchmarks}
    /\ pc = "generate"
    /\ now = 0
    /\ store = EmptyStore
    /\ open = {MainConn}
    /\ faultsLeft = 0
    /\ defect = NoDefect
    /\ cx = [nusers |-> BenchComplexNusers,
             narticlesPerUser |-> BenchComplexNarticlesPerUser,
             ncommentsPerArticle |-> BenchComplexNcommentsPerArticle]
    /\ users = <<>> /\ articles = <<>> /\ comments = <<>>
    /\ gen = ZeroGen
    /\ t0 = None /\ insertMillis = None /\ queryMillis = None
    /\ qi = 0
    /\ rd = IdleReaders
    /\ wg = 0
    /\ reports = <<>>
    /\ returned = {}
    /\ hist = NoHist
    /\ access = NoAccess

\* the next iterations of the loop over i (over u in benchComplex, with its
\* inner loops); of the rows appended, users, articles and comments keep
\* the last of each kind
GenerateBlock ==
    /\ exit = "running" /\ pc = "generate"
    /\ gen.u < SourceNusers(Kind)
    /\ LET next == Min(gen.u + Stride(Kind), SourceNusers(Kind))
       IN  /\ gen' = [gen EXCEPT !.u = next]
           /\ IF Kind = "complex"
              THEN /\ users' = <<NewUser(next, ComplexUserCreated(next - 1),
                                         SprintfUser08(next), (next - 1) % 2 = 0)>>
                   /\ articles' = IF cx.narticlesPerUser = 0 THEN articles
                      ELSE <<NewArticle(next * cx.narticlesPerUser,
                                ComplexArticleCreated(next - 1, cx.narticlesPerUser - 1),
                                next, "article text")>>
                   /\ comments' = IF cx.narticlesPerUser = 0 \/ cx.ncommentsPerArticle = 0
                      THEN comments
                      ELSE <<NewComment(next * cx.narticlesPerUser * cx.ncommentsPerArticle,
                                ComplexCommentCreated(next - 1, cx.narticlesPerUser - 1,
                                                      cx.ncommentsPerArticle - 1),
                                next * cx.narticlesPerUser, "comment text")>>
              ELSE /\ users' = <<GenRow(Kind, next - 1, Arg)>>
                   /\ UNCHANGED <<articles, comments>>
    /\ UNCHANGED <<ctl, now, env, cx, t0, insertMillis, queryMillis, qi, con, reports, his>>

\* the loop condition fails: the generator is done
GenerateEnd ==
    /\ exit = "running" /\ pc = "generate"
    /\ gen.u >= SourceNusers(Kind)
    /\ pc' = "generated"
    /\ UNCHANGED <<dbfile, exit, fatalAt, scn, now, env, cx, loc, con, reports, his>>

NextGenerators ==
    \/ GenerateBlock
    \/ GenerateEnd

SpecGenerators == InitGenerators /\ [][NextGenerators]_vars

(***************************************************************************)
(* Properties.                                                             *)
(***************************************************************************)
\* the scenario has reached its report step
AtReport == pc \in {"report", "return"}
\* the scenario's frame is live: its locals are those of this invocation
InScenario == pc # "remove"
SingleTable == {"simple", "many", "large"}

\* C1: in the read phase of benchConcurrent no variable written by one reader
\* is read or written by another reader
C1_NoSharedState == \A r \in access.w : (access.w \cup access.r) \subseteq {r}

\* C2: benchConcurrent reaches its report step only if the sequence returned
\* by every reader's own FindUsers call had nusers rows, each with id i+1,
\* year 2023, email prefix "user" and active
C2_OwnResultValidated == (Kind = "concurrent" /\ AtReport) => returned = {}

\* C3: while a reader of benchConcurrent runs or holds a connection, the seed
\* connection is closed and the scenario is past its insert, in the read phase
C3_PhasesDisjoint ==
    (open \cap Readers # {} \/ \E r \in Readers : rd[r].pc \notin {"idle", "exited"})
        => (MainConn \notin open /\ Kind = "concurrent" /\ pc \in {"spawn", "wait"})

C3_Witness == exit = "running" /\ Cardinality(open \cap Readers) >= 2

\* C4: benchConcurrent with N readers opens at most N reader connections, and
\* once it has its elapsed time (which it has when it reports) it has opened
\* exactly N, all N readers have ended, the interval began before the first
\* reader was launched and it ended after the last reader ended
C4_Barrier ==
    /\ (Kind = "concurrent" /\ InScenario) => hist.opens <= Arg
    /\ (Kind = "concurrent" /\ InScenario /\ queryMillis # None) =>
          /\ hist.opens = Arg
          /\ wg = 0
          /\ \A r \in 1 .. Arg : rd[r].pc = "exited"
          /\ t0 # None /\ hist.firstLaunch # None /\ t0 < hist.firstLaunch
          /\ hist.lastExit # None /\ hist.lastExit < t0 + queryMillis
    /\ (Kind = "concurrent" /\ AtReport) => queryMillis # None

C4_Witness ==
    /\ Kind = "concurrent" /\ pc = "report"
    /\ hist.opens = Arg /\ Arg >= 2
    /\ hist.firstLaunch < hist.lastExit

\* C5 as stated: whenever a scenario has been left, by its return or by the
\* fatal exit, no connection is open
C5_ClosedOnEveryExit == (exit \in {"fatal", "ok"} \/ pc = "remove") => open = {}

\* C5: when a scenario has returned no connection is open; the fatal exit
\* closes none of the connections that are open
C5_ClosedOnReturn ==
    /\ []((exit # "fatal" /\ pc \in {"remove", "done"}) => open = {})
    /\ [][exit' = "fatal" => open \subseteq open']_vars

C5_Witness == pc = "remove" /\ Kind = "concurrent" /\ hist.opens >= 2 /\ open = {}

\* a check of the scenario's own goroutine is about to fail
MainCheckFails ==
    \/ pc = "check_len" /\ Len(users) # Nusers
    \/ pc = "validate" /\ Kind \in SingleTable /\ ~RowsPass(Kind, users)
    \/ pc = "validate" /\ Kind = "complex" /\ ~ComplexPasses(users, articles, comments, cx)

\* C6: a failed check halts the run there: the step that meets it ends the
\* process with no line reported for the scenario, a reader gets past its
\* validation only with rows that pass, and a halted run takes no further step
C6_FailureHalts ==
    [][/\ exit = "running"
       /\ (MainCheckFails => exit' = "fatal")
       /\ (exit' = "fatal" =>
              /\ fatalAt' # ""
              /\ reports' = reports /\ Len(reports') = scn' - 1
              /\ scn' = scn /\ pc' = pc)
       /\ \A r \in Readers :
              (rd[r].pc = "validate" /\ rd'[r].pc # "validate" /\ exit' # "fatal")
                  => RowsPass("concurrent", rd'[r].seen)]_vars

C6_Witness ==
    /\ exit = "fatal" /\ fatalAt = "validate"
    /\ Kind = "concurrent" /\ Cardinality(open) >= 2
    /\ Len(reports) = scn - 1

\* C7 as stated: a scenario reaches its report step only if every answer of
\* its query phase had the right row count and only conforming rows
C7_EveryAnswerValidated == AtReport => returned = {}

\* C7: at the report step of simple, large and complex every answer was
\* right; of many, every answer had the right row count and the rows of the
\* last answer conform; and a reader of concurrent gets past its validation
\* only with conforming rows in what it read from users
C7_LastAnswerValidated ==
    /\ (AtReport /\ Kind \in {"simple", "large", "complex"}) => returned = {}
    /\ (AtReport /\ Kind = "many") => ("count" \notin returned /\ AllConform(Kind, users))
    /\ \A r \in Readers : rd[r].pc \in {"close", "done"} => AllConform("concurrent", rd[r].seen)

C7_Witness == Kind = "many" /\ pc = "report" /\ "row" \in returned

\* C8 as stated: every reported line has the insert duration, the query
\* duration and the storage footprint
C8_AllColumns ==
    \A k \in DOMAIN reports :
        /\ reports[k].cols = <<"insert", "query", "dbsize">>
        /\ \A j \in DOMAIN reports[k].vals : reports[k].vals[j] # None

\* C8: every completed invocation has reported one line, with its label, its
\* query duration and the storage footprint; simple and complex report the
\* insert duration too; many times its insert but does not report it, large
\* and concurrent do not time it
C8_ReportLines ==
    /\ Len(reports) = (IF pc \in {"return", "done"} THEN scn ELSE scn - 1)
    /\ \A k \in DOMAIN reports :
          /\ reports[k].label[1] = Benchmarks[k].kind
          /\ reports[k].cols =
                (IF Benchmarks[k].kind \in {"simple", "complex"}
                 THEN <<"insert", "query", "dbsize">> ELSE <<"query", "dbsize">>)
          /\ (Benchmarks[k].kind \notin {"simple", "complex"}
                 => reports[k].label = <<Benchmarks[k].kind, Benchmarks[k].arg>>)
          /\ DOMAIN reports[k].vals = DOMAIN reports[k].cols
          /\ \A j \in DOMAIN reports[k].vals : reports[k].vals[j] # None
    /\ (pc = "report" /\ Kind \in {"simple", "complex", "many"}) => insertMillis # None
    /\ (pc = "report" /\ Kind \in {"large", "concurrent"}) => insertMillis = None

C8_Witness == exit = "ok" /\ Len(reports) = Len(Benchmarks)

\* the call benchMany(dbfile, verbose, 10, makeDb) of Run
ManyCall10 == CHOOSE k \in DOMAIN Benchmarks : Benchmarks[k] = [kind |-> "many", arg |-> ManyN1]

\* C9: simple, many and large reach the report step only with a final answer
\* of nusers rows that all conform (benchMany with 10 users: 10 rows, ids 1
\* to 10), and a final answer of nusers conforming rows passes every check
C9_ReportIffValid ==
    /\ []((AtReport /\ Kind \in SingleTable) =>
              (Len(users) = Nusers /\ AllConform(Kind, users)))
    /\ []((AtReport /\ scn = ManyCall10) =>
              (Len(users) = ManyN1 /\ users[1].Id = 1 /\ users[ManyN1].Id = ManyN1))
    /\ [][(/\ Kind \in SingleTable
           /\ pc \in {"check_len", "validate"}
           /\ Len(users) = Nusers /\ AllConform(Kind, users))
              => (exit' = "running" /\ (pc = "validate" => pc' = "report"))]_vars

C9_Witness ==
    /\ scn = ManyCall10 /\ pc = "report"
    /\ Len(users) = 10 /\ users[1].Id = 1 /\ users[10].Id = 10

NonDecreasing(ids) == \A k \in 2 .. Len(ids) : ids[k] >= ids[k - 1]

\* the row counts and the orderings of a complex data set with parameters p
ComplexShape(us, as, cs, p) ==
    /\ Len(us) = p.nusers
    /\ Len(as) = p.nusers * p.narticlesPerUser
    /\ Len(cs) = p.nusers * p.narticlesPerUser * p.ncommentsPerArticle
    /\ NonDecreasing([k \in DOMAIN as |-> as[k].UserId])
    /\ NonDecreasing([k \in DOMAIN cs |-> cs[k].ArticleId])

\* C10: benchComplex reaches its report step only with a join result of the
\* right row counts whose article.userId and comment.articleId are
\* non-decreasing; what the generator loop has built has these row counts and
\* orderings and passes the scenario's validation
C10_ComplexShape ==
    /\ (Kind = "complex" /\ AtReport) => ComplexShape(users, articles, comments, cx)
    /\ (Kind = "complex" /\ pc = "t0_insert") =>
          /\ ComplexShape(users, articles, comments, cx)
          /\ ComplexPasses(users, articles, comments, cx)

C10_Witness ==
    /\ Kind = "complex" /\ pc = "report"
    /\ cx.nusers = ComplexNusers /\ cx.narticlesPerUser = ComplexNarticles
    /\ cx.ncommentsPerArticle = ComplexNcomments
    /\ Len(comments) = ComplexNusers * ComplexNarticles * ComplexNcomments
    /\ Len(comments) >= 2

\* the scenario is in its query phase
InQueryPhase ==
    pc \in {"find", "check_len", "find_join", "spawn", "wait", "end_query"}

\* C11: a scenario's first connection is opened on discarded storage files,
\* the rows in storage are never others than those the invocation generated,
\* and in the query phase they are exactly those: what the query selects is
\* what the invocation inserted
C11_FreshStart ==
    /\ [][(MainConn \notin open /\ MainConn \in open') => store = EmptyStore]_vars
    /\ []((pc \notin {"start", "remove"} /\ Kind # "complex") =>
             /\ store.users \subseteq Range(GenUsers(Kind, Nusers, Arg))
             /\ store.articles = {} /\ store.comments = {})
    /\ []((InQueryPhase /\ Kind # "complex") =>
             SelectUsers(store) = GenUsers(Kind, Nusers, Arg))
    /\ []((pc \in {"insert_users", "insert_articles", "insert_comments", "end_insert",
                   "t0_query", "find_join"} /\ Kind = "complex") =>
             /\ store.users \subseteq Range(users)
             /\ store.articles \subseteq Range(articles)
             /\ store.comments \subseteq Range(comments))
    /\ []((pc = "find_join" /\ Kind = "complex") =>
             /\ store.users = Range(users)
             /\ store.articles = Range(articles)
             /\ store.comments = Range(comments))

\* a scenario that follows one with more rows queries its own rows only
C11_Witness ==
    /\ Kind = "many" /\ Arg = ManyN2 /\ pc = "find"
    /\ Len(reports) >= 3
    /\ Cardinality(store.users) = ManyN2

\* the kinds of the eleven calls of Run, in its order
RunOrder ==
    <<"simple", "complex", "many", "many", "many", "large", "large", "large",
      "concurrent", "concurrent", "concurrent">>

\* the run has ended normally with the lines of all calls of Run, in its order
AllReported ==
    /\ exit = "ok"
    /\ Len(reports) = Len(RunOrder)
    /\ \A k \in DOMAIN reports :
          /\ reports[k].label[1] = RunOrder[k]
          /\ Benchmarks[k].kind = RunOrder[k]
          /\ (RunOrder[k] \in {"many", "large", "concurrent"}
                => reports[k].label[2] = Benchmarks[k].arg)

\* C12: with a target given and a backend that answers with the inserted rows
\* in order, the run ends normally having completed the eleven calls in the
\* order of Run, and with the readers scheduled fairly every wg.Wait() of
\* benchConcurrent returns
C12_Terminates ==
    /\ <>AllReported
    /\ [](exit # "fatal")
    /\ ((Kind = "concurrent" /\ pc = "wait") ~> (Kind = "concurrent" /\ pc = "end_query"))

C12_Witness ==
    /\ AllReported /\ pc = "done"
    /\ faultsLeft = 0 /\ hist.opens = NGoroutines3 /\ hist.lastExit # None

\* C13: with an empty target the run never leaves the entry of Run, and its
\* one step is the fatal exit, which leaves the storage files as they are and
\* opens no connection; no scenario is started
C13_EmptyTargetFatal ==
    /\ [](dbfile = "" =>
             /\ scn = 1 /\ pc = "start"
             /\ open = {} /\ reports = <<>>
             /\ exit \in {"running", "fatal"}
             /\ returned = {} /\ users = <<>>)
    /\ [][dbfile = "" =>
             /\ exit' = "fatal" /\ fatalAt' = "dbfile empty"
             /\ store' = store /\ open' = {} /\ pc' = "start"]_vars

C13_Witness ==
    /\ dbfile = "" /\ exit = "fatal" /\ fatalAt = "dbfile empty"
    /\ store = StaleStore /\ open = {}

\* the rows of benchComplex as a function of its parameters p alone
ExpectedUsers(p) ==
    [k \in 1 .. p.nusers |->
        NewUser(k, TimeAdd(Base, k - 1, 0, 0), SprintfUser08(k), (k - 1) % 2 = 0)]
ExpectedArticles(p) ==
    [k \in 1 .. p.nusers * p.narticlesPerUser |->
        NewArticle(k,
                   TimeAdd(Base, (k - 1) \div p.narticlesPerUser,
                           (k - 1) % p.narticlesPerUser, 0),
                   ((k - 1) \div p.narticlesPerUser) + 1, "article text")]
ExpectedComments(p) ==
    [k \in 1 .. p.nusers * p.narticlesPerUser * p.ncommentsPerArticle |->
        NewComment(k,
                   TimeAdd(Base,
                           ((k - 1) \div p.ncommentsPerArticle) \div p.narticlesPerUser,
                           ((k - 1) \div p.ncommentsPerArticle) % p.narticlesPerUser,
                           (k - 1) % p.ncommentsPerArticle),
                   ((k - 1) \div p.ncommentsPerArticle) + 1, "comment text")]

\* the scenario holds generated or queried rows in its slices
HoldsRows ==
    pc \in {"t0_insert", "insert_users", "insert_articles", "insert_comments", "end_insert",
            "close_db1", "t0_query", "find", "check_len", "find_join", "spawn", "wait",
            "end_query", "validate", "report", "return"}

\* C14: with a reset target and a backend that meets its contract, what a
\* scenario generates, what it has stored when it queries and what it
\* validates are functions of the scenario and its parameters alone, in every
\* interleaving of the readers, and every validation passes; so two
\* invocations with the same parameters differ in their timings only
C14_Idempotent ==
    /\ exit # "fatal" /\ returned = {}
    /\ (HoldsRows /\ Kind # "complex") => users = GenUsers(Kind, Nusers, Arg)
    /\ (HoldsRows /\ Kind = "complex") =>
          /\ users = ExpectedUsers(cx)
          /\ articles = ExpectedArticles(cx)
          /\ comments = ExpectedComments(cx)
    /\ \A r \in Readers :
          (rd[r].pc \in {"len", "validate"} => rd[r].res = GenUsers(Kind, Nusers, Arg))
          /\ (rd[r].pc \in {"close", "done"} => rd[r].seen = GenUsers(Kind, Nusers, Arg))
    /\ ((InQueryPhase \/ AtReport) /\ Kind # "complex") =>
          /\ Cardinality(store.users) = Nusers
          /\ store.articles = {} /\ store.comments = {}
    /\ ((InQueryPhase \/ AtReport) /\ Kind = "complex") =>
          /\ Cardinality(store.users) = cx.nusers
          /\ Cardinality(store.articles) = cx.nusers * cx.narticlesPerUser
          /\ Cardinality(store.comments) =
                cx.nusers * cx.narticlesPerUser * cx.ncommentsPerArticle
    /\ \A j, k \in DOMAIN reports :
          Benchmarks[j] = Benchmarks[k] =>
              /\ reports[j].label = reports[k].label
              /\ reports[j].cols = reports[k].cols
              /\ reports[j].vals[Len(reports[j].vals)] = reports[k].vals[Len(reports[k].vals)]

\* the same scenario has run twice with the same parameters, its readers
\* interleaved differently or not
C14_Witness ==
    /\ exit = "ok"
    /\ \E j, k \in DOMAIN reports :
          j < k /\ Benchmarks[j] = Benchmarks[k] /\ Benchmarks[j].kind = "concurrent"

\* the slices of benchComplex hold what its generator has built so far
HoldsGenerated ==
    /\ Kind = "complex"
    /\ pc \in {"gen_u", "gen_a", "gen_c", "t0_insert", "insert_users", "insert_articles",
               "insert_comments", "end_insert", "t0_query", "find_join"}

\* the ids of q are 1, 2, ... in its order
Sequential(q) == \A k \in DOMAIN q : q[k].Id = k

\* C15: in benchComplex the ids of each kind count up from 1 with no gap,
\* at every point of the generator loop each article names a user and each
\* comment an article that is generated already, and in storage every
\* article's user and every comment's article is stored, the batches going
\* in as users, then articles, then comments
C15_ReferentialIntegrity ==
    /\ [](HoldsGenerated =>
             /\ Sequential(users) /\ Sequential(articles) /\ Sequential(comments)
             /\ \A k \in DOMAIN articles : articles[k].UserId \in 1 .. Len(users)
             /\ \A k \in DOMAIN comments : comments[k].ArticleId \in 1 .. Len(articles))
    /\ [](/\ \A a \in store.articles : \E u \in store.users : u.Id = a.UserId
          /\ \A c \in store.comments : \E a \in store.articles : a.Id = c.ArticleId)
    /\ [][/\ (store'.articles # store.articles =>
                 (store.users = Range(users) /\ store.comments = {}))
          /\ (store'.comments # store.comments =>
                 (store.users = Range(users) /\ store.articles = Range(articles)))]_vars

C15_Witness ==
    /\ Kind = "complex" /\ pc = "insert_comments"
    /\ cx.nusers >= 2 /\ cx.narticlesPerUser >= 2 /\ cx.ncommentsPerArticle >= 2
    /\ Cardinality(store.articles) = cx.nusers * cx.narticlesPerUser
    /\ store.comments = {} /\ Len(comments) > 0

\* the connections that readers hold
ReaderConns == open \cap Readers

\* C16: the step by which a scenario returns leaves no connection open, and
\* the step that discards the storage files finds none open; a reader has
\* closed its connection when it signals the barrier; the readers hold
\* connections only in the concurrent scenario and never more than N of
\* them, and while the process runs only launched readers do
C16_NoOpenConnection ==
    /\ [][(pc = "return" /\ pc' # "return") => open' = {}]_vars
    /\ [][(pc = "remove" /\ pc' # "remove") => (open = {} /\ open' = {})]_vars
    /\ [][\A r \in Readers : wg' < wg /\ rd'[r].pc = "exited" /\ rd[r].pc # "exited"
                                => (r \notin open /\ r \notin open')]_vars
    /\ [](/\ Cardinality(ReaderConns) <= (IF Kind = "concurrent" THEN Arg ELSE 0)
          /\ exit = "running" => ReaderConns \subseteq 1 .. qi)

C16_Witness ==
    /\ exit = "running" /\ Kind = "concurrent" /\ Arg >= 2
    /\ hist.opens = Arg
    /\ \E r \in Readers : rd[r].pc = "exited" /\ r \notin open
    /\ ReaderConns # {}

\* the loop indexes that the latest step of the generator loop ran through
LatestBlock ==
    IF gen.u = 0 THEN {}
    ELSE (((gen.u - 1) \div Stride(Kind)) * Stride(Kind)) .. (gen.u - 1)

\* C17: at the sizes of the source every timestamp a generator produces has
\* a year that the validation loop of its scenario accepts: 2023 to 2025 for
\* benchSimple, 2023 for the users of the other scenarios and for the users,
\* articles and comments of benchComplex
C17_GeneratedYearsPass ==
    \A i \in LatestBlock :
        IF Kind = "complex"
        THEN /\ YearPasses(Kind, Year(ComplexUserCreated(i)))
             /\ \A a \in 0 .. cx.narticlesPerUser - 1 :
                  /\ YearPasses(Kind, Year(ComplexArticleCreated(i, a)))
                  /\ \A c \in 0 .. cx.ncommentsPerArticle - 1 :
                       YearPasses(Kind, Year(ComplexCommentCreated(i, a, c)))
        ELSE YearPasses(Kind, Year(GenRow(Kind, i, Arg).Created))

C17_Witness ==
    /\ pc = "generated" /\ Kind = "simple"
    /\ gen.u = BenchSimpleNusers
    /\ users[1].Id = BenchSimpleNusers
    /\ Year(users[1].Created) = 2025

====
